---- MODULE Spec2Model ----
(***************************************************************************)
(* Segmented ring-buffer recorder of abhimakulshrestha/VideoCapture:       *)
(* SegmentManager (segment store), CircularBufferRecorder (session         *)
(* controller, both backend bindings) and the success/failure outcome of   *)
(* VideoMuxer.concatenateSegments.                                         *)
(*                                                                         *)
(* Threads: the caller context runs setClipDuration, startBuffering,       *)
(* triggerCapture and stopCamera one at a time; the segment loop and the   *)
(* finalize task are coroutines of recordingScope and interleave with the  *)
(* caller between their own steps.  stopCamera is two steps because the    *)
(* loop keeps running between its cancel()/clearBuffer() and its final     *)
(* state assignment (cancellation is cooperative).                         *)
(***************************************************************************)
EXTENDS Integers, Sequences, FiniteSets, TLC

\* ---------------------------------------------------------------- bounds
MaxIndex == 5
MaxFailures == 1
MaxTotal == 2
MaxSegs == 3
MaxClip == 60
MaxStoreIndex == 4
MaxCaptureTotal == 3
MaxStoreSeconds == 1

\* ------------------------------------------------------ program constants
SEGMENT_DURATION_MS == 500
REC_SEGMENT_DURATION_MS == 500
CTL_SEGMENT_DURATION_MS == 2000
DEFAULT_BUFFER_SECONDS == 5
DEFAULT_BUFFER_MS == 5000
FRAME_DURATION_US == 33333

Builds == {"provider", "controller"}
States == {"IDLE", "BUFFERING", "CAPTURING_POST", "FINALIZING"}
ClipDurations == 2..MaxTotal
ClipTotals == 2..MaxClip
Indices == 0..(MaxIndex - 1)
FileStates == {"none", "empty", "data"}

VARIABLES
  build,              \* which CircularBufferRecorder binding is compiled in
  state,              \* CircularBufferRecorder.state
  preBufferSeconds, postBufferSeconds,
  preSegments, postSegments,
  segments,           \* SegmentManager.segments (indices, oldest first)
  segmentCounter,     \* SegmentManager.segmentCounter
  bufferDurationMs,   \* SegmentManager.bufferDurationMs
  files,              \* segment_<i>.mp4 in the scratch area: none/empty/data
  jobActive,          \* segmentRecordingJob exists and is not cancelled
  scopeActive,        \* recordingScope not cancelled
  pcLoop, cur,        \* position of the segment loop, its segmentFile
  currentRecording,   \* index being recorded by the backend, or -1
  pcFin, outputPath,  \* position of the finalize task, result of the muxer
  pcStop,             \* "none", or "mid" inside stopCamera
  emitted,            \* observations emitted by the last step
  failures,           \* backend failures injected so far
  completedCount,     \* captureCompleted observations since startBuffering
  cycleClean,         \* no backend failure and no stopCamera in this cycle
  ioFailed,           \* the muxer or the sink failed in the finalize task
  unackedRecording,   \* latest recording started whose Finalize event has not
                      \* been delivered, or -1
  firstPost,          \* first segment still unfinished at the accepted trigger
  allSegments,        \* the list the finalize task hands to the muxer
  muxIn, muxSinkOk,   \* VideoMuxer called on its own: files, sink behaviour,
  muxOut, muxPc,      \* result, position
  scratch,            \* other files present in the scratch directory
  orphanLog,          \* "Deleted orphan file" lines of the last cleanup
  storeOut            \* list returned by the last SegmentManager query

recorderVars ==
  <<build, state, preBufferSeconds, postBufferSeconds, preSegments,
    postSegments, segments, segmentCounter, bufferDurationMs, files,
    jobActive, scopeActive, pcLoop, cur, currentRecording, pcFin,
    outputPath, pcStop, emitted, failures, completedCount, cycleClean,
    ioFailed, unackedRecording, firstPost, allSegments>>
muxVars == <<muxIn, muxSinkOk, muxOut, muxPc>>
aloneVars == <<muxVars, scratch, orphanLog, storeOut>>
vars == <<recorderVars, aloneVars>>

ctlVars == <<state, preSegments, postSegments>>
cfgVars == <<preBufferSeconds, postBufferSeconds, bufferDurationMs>>
storeVars == <<segments, segmentCounter, files>>
loopVars == <<jobActive, pcLoop, cur, currentRecording>>
finVars == <<pcFin, outputPath, allSegments>>

Ev(n, a) == [name |-> n, arg |-> a]

\* ------------------------------------------------------------ SegmentManager

\* trimBuffer: maxSegments
MaxSegmentsOfOffByOne(durMs) == (durMs \div SEGMENT_DURATION_MS) + 3
MaxSegmentsOf(durMs) == (durMs \div SEGMENT_DURATION_MS) + 2

\* trimBuffer: while (segments.size > maxSegments) pollFirst and delete
RECURSIVE TrimBufferEvictsNewest(_, _, _)
TrimBufferEvictsNewest(segs, fs, durMs) ==
  IF Len(segs) > MaxSegmentsOf(durMs)
  THEN TrimBufferEvictsNewest(SubSeq(segs, 1, Len(segs) - 1),
                              [fs EXCEPT ![segs[Len(segs)]] = "none"], durMs)
  ELSE [segs |-> segs, files |-> fs]
RECURSIVE TrimBufferCountsValid(_, _, _)
TrimBufferCountsValid(segs, fs, durMs) ==
  IF Len(SelectSeq(segs, LAMBDA i : fs[i] = "data")) > MaxSegmentsOf(durMs)
  THEN TrimBufferCountsValid(Tail(segs), [fs EXCEPT ![Head(segs)] = "none"], durMs)
  ELSE [segs |-> segs, files |-> fs]
RECURSIVE TrimBuffer(_, _, _)
TrimBuffer(segs, fs, durMs) ==
  IF Len(segs) > MaxSegmentsOf(durMs)
  THEN TrimBuffer(Tail(segs), [fs EXCEPT ![Head(segs)] = "none"], durMs)
  ELSE [segs |-> segs, files |-> fs]

\* createNewSegment: addLast(index = segmentCounter++), then trimBuffer
CreateNewSegment(segs, ctr, fs, durMs) ==
  LET t == TrimBuffer(Append(segs, ctr), fs, durMs)
  IN  [segs |-> t.segs, files |-> t.files, counter |-> ctr + 1, file |-> ctr]

\* getAllSegments: tracked files that exist with length > 0, in deque order
GetAllSegmentsUnfiltered(segs, fs) == segs
GetAllSegments(segs, fs) == SelectSeq(segs, LAMBDA i : fs[i] = "data")

\* freezeBuffer
FreezeBuffer(segs, fs) == GetAllSegments(segs, fs)

Range(s) == {s[i] : i \in 1..Len(s)}

\* clearBuffer: delete every tracked file, clear, counter = 0
ClearBufferKeepsCounter(segs, fs) ==
  [segs |-> <<>>, counter |-> Len(segs),
   files |-> [i \in 0..(MaxIndex - 1) |-> IF \E k \in 1..Len(segs) : segs[k] = i
                                          THEN "none" ELSE fs[i]]]
ClearBuffer(segs, fs) ==
  [segs |-> <<>>, counter |-> 0,
   files |-> [i \in Indices |-> IF i \in Range(segs) THEN "none" ELSE fs[i]]]

\* cleanupOrphanFiles: delete segment files that are not tracked
CleanupOrphanFiles(segs, fs) ==
  [i \in Indices |-> IF i \in Range(segs) THEN fs[i] ELSE "none"]

\* names a file of the scratch directory can have besides segment_<index>.mp4
ScratchNames ==
  { [prefix |-> "segment_", extension |-> "mp4"],
    [prefix |-> "segment_", extension |-> "tmp"],
    [prefix |-> "clip_", extension |-> "mp4"] }

\* file.name.startsWith(SEGMENT_PREFIX) && file.extension == "mp4"
MatchesConventionPrefixOnly(n) == n.prefix = "segment_"
MatchesConvention(n) == n.prefix = "segment_" /\ n.extension = "mp4"

\* cleanupOrphanFiles on the other files: none of them is tracked
CleanupOrphanNames(names) == {n \in names : ~MatchesConvention(n)}

\* cleanupOrphanFiles: Log.d("Deleted orphan file: ...") per deleted file
NoOrphanLog == [files |-> {}, names |-> {}]
OrphanLog(segs, fs, names) ==
  [files |-> {i \in Indices : fs[i] # CleanupOrphanFiles(segs, fs)[i]},
   names |-> names \ CleanupOrphanNames(names)]

\* getPreCaptureSegments: if (totalDuration >= durationMs) break
ReachedTargetStrict(total, durMs) == total > durMs
ReachedTarget(total, durMs) == total >= durMs

\* getPreCaptureSegments: walk segments.toList().reversed(), add each valid
\* file to the front of the result and stop once the target is reached
RECURSIVE PreCaptureWalk(_, _, _, _, _, _)
PreCaptureWalk(segs, fs, k, total, result, durMs) ==
  IF k = 0 THEN result
  ELSE IF fs[segs[k]] = "data"
       THEN LET r == <<segs[k]>> \o result
                t == total + SEGMENT_DURATION_MS
            IN  IF ReachedTarget(t, durMs) THEN r
                ELSE PreCaptureWalk(segs, fs, k - 1, t, r, durMs)
       ELSE PreCaptureWalk(segs, fs, k - 1, total, result, durMs)

GetPreCaptureSegments(segs, fs, durMs) ==
  PreCaptureWalk(segs, fs, Len(segs), 0, <<>>, durMs)

\* ----------------------------------------------------------------- VideoMuxer

\* concatenateSegments: null on empty input or on any exception (a single
\* missing file makes copyTo throw; the sink may refuse the insert)
ConcatenateSegmentsAbortOnMissing(segs, fs, sinkOk) ==
  IF segs = <<>> THEN "null"
  ELSE IF \E k \in 1..Len(segs) : fs[segs[k]] # "data" THEN "null"
  ELSE IF ~sinkOk THEN "null"
  ELSE "uri"
ConcatenateSegments(segs, fs, sinkOk) ==
  IF segs = <<>> THEN "null"
  ELSE IF Len(segs) = 1 /\ fs[segs[1]] = "none" THEN "null"
  ELSE IF ~sinkOk THEN "null"
  ELSE "uri"

\* ------------------------------------------- VideoMuxer on media contents

\* a coded sample as the extractor reports it: sampleTime, the size
\* readSampleData returns, sampleFlags (1 is the key frame flag)
KeySample(t) == [time |-> t, size |-> 2, flags |-> 1]
DeltaSample(t) == [time |-> t, size |-> 1, flags |-> 0]

\* one track of a segment file: whether the file has a track of that kind,
\* and its samples in file order
AbsentTrack == [present |-> FALSE, samples |-> <<>>]
TrackContents ==
  { AbsentTrack,
    [present |-> TRUE, samples |-> <<>>],
    [present |-> TRUE,
     samples |-> <<KeySample(0), DeltaSample(FRAME_DURATION_US)>>],
    [present |-> TRUE,
     samples |-> <<KeySample(FRAME_DURATION_US), DeltaSample(0)>>] }

\* a segment file as the muxer sees it: missing, zero-length, or a container
\* with at least one track
MediaFiles ==
  { [kind |-> k, video |-> AbsentTrack, audio |-> AbsentTrack] :
      k \in {"missing", "empty"} }
  \cup { f \in [kind : {"valid"}, video : TrackContents, audio : TrackContents] :
           f.video.present \/ f.audio.present }

MuxInputs == UNION { [1..n -> MediaFiles] : n \in 0..MaxSegs }

MaxOf(S) == CHOOSE m \in S : \A x \in S : x <= m

\* copyTrack: return maxPts + 33333
NextOffsetNoGap(maxPts) == maxPts
NextOffset(maxPts) == maxPts + FRAME_DURATION_US

\* copyTrack: bufferInfo.flags = extractor.sampleFlags
WrittenFlags(sample) == sample.flags

\* copyTrack: every sample is written with sampleTime + ptsOffset, its size
\* and its flags; maxPts starts at ptsOffset.  k tags the samples with their
\* segment's position.
CopyTrack(track, k, ptsOffset) ==
  LET written == [i \in 1..Len(track.samples) |->
                    [pts |-> track.samples[i].time + ptsOffset,
                     size |-> track.samples[i].size,
                     flags |-> WrittenFlags(track.samples[i]),
                     seg |-> k]]
      maxPts == MaxOf({ptsOffset} \cup {written[i].pts : i \in 1..Len(written)})
  IN  [written |-> written, last |-> NextOffset(maxPts)]

\* if (!segment.exists() || segment.length() == 0L) continue
SkippedNever(f) == FALSE
Skipped(f) == f.kind \in {"missing", "empty"}

\* concatenateWithMuxer before the loop
MuxerStart ==
  [muxerStarted |-> FALSE, videoTrackIndex |-> -1, audioTrackIndex |-> -1,
   lastVideoPts |-> 0, lastAudioPts |-> 0, video |-> <<>>, audio |-> <<>>]

\* on the first valid segment, one output track per kind the segment has
MuxerSetup(m, f) ==
  IF m.muxerStarted THEN m
  ELSE [m EXCEPT !.muxerStarted = TRUE,
                 !.videoTrackIndex = IF f.video.present THEN 0 ELSE -1,
                 !.audioTrackIndex = IF f.audio.present
                                     THEN (IF f.video.present THEN 1 ELSE 0)
                                     ELSE -1]

\* one iteration of the loop over segments.withIndex()
MuxerSegment(m, f, k) ==
  IF Skipped(f) THEN m
  ELSE LET m1 == MuxerSetup(m, f)
           v  == CopyTrack(f.video, k, m1.lastVideoPts)
           m2 == IF m1.videoTrackIndex >= 0
                 THEN [m1 EXCEPT !.video = m1.video \o v.written,
                                 !.lastVideoPts = v.last]
                 ELSE m1
           a  == CopyTrack(f.audio, k, m2.lastAudioPts)
       IN  IF m2.audioTrackIndex >= 0
           THEN [m2 EXCEPT !.audio = m2.audio \o a.written,
                           !.lastAudioPts = a.last]
           ELSE m2

RECURSIVE MuxerLoop(_, _, _)
MuxerLoop(segs, k, m) ==
  IF k > Len(segs) THEN m
  ELSE MuxerLoop(segs, k + 1, MuxerSegment(m, segs[k], k))

ConcatenateWithMuxer(segs) == MuxerLoop(segs, 1, MuxerStart)

\* if (segments.size == 1) segments[0].copyTo(tempOutput)
SingleSegmentCopyNever(n) == FALSE
SingleSegmentCopy(n) == n = 1

NullArtifact == [kind |-> "null"]

\* concatenateSegments: the artifact saved to the sink, or null
ConcatenateOutput(segs, sinkOk) ==
  IF segs = <<>> THEN NullArtifact
  ELSE IF SingleSegmentCopy(Len(segs))
       THEN IF segs[1].kind = "missing" \/ ~sinkOk THEN NullArtifact
            ELSE [kind |-> "copy", bytes |-> segs[1]]
  ELSE IF ~sinkOk THEN NullArtifact
  ELSE LET m == ConcatenateWithMuxer(segs)
       IN  [kind |-> "muxed", video |-> m.video, audio |-> m.audio]

\* --------------------------------------------------- CircularBufferRecorder

RecSegmentDurationMs(b) ==
  IF b = "provider" THEN REC_SEGMENT_DURATION_MS ELSE CTL_SEGMENT_DURATION_MS

\* the recorder after construction, apart from the clip configuration
RecorderStart ==
  /\ build \in Builds
  /\ state = "IDLE"
  /\ preSegments = <<>>
  /\ postSegments = <<>>
  /\ segments = <<>>
  /\ segmentCounter = 0
  /\ files = [i \in Indices |-> "none"]
  /\ jobActive = FALSE
  /\ scopeActive = TRUE
  /\ pcLoop = "none"
  /\ cur = -1
  /\ currentRecording = -1
  /\ pcFin = "none"
  /\ outputPath = "null"
  /\ pcStop = "none"
  /\ emitted = <<>>
  /\ failures = 0
  /\ completedCount = 0
  /\ cycleClean = FALSE
  /\ ioFailed = FALSE
  /\ unackedRecording = -1
  /\ firstPost = -1
  /\ allSegments = <<>>

DefaultConfig ==
  /\ preBufferSeconds = DEFAULT_BUFFER_SECONDS
  /\ postBufferSeconds = DEFAULT_BUFFER_SECONDS
  /\ bufferDurationMs = DEFAULT_BUFFER_MS

RecorderInit == RecorderStart /\ DefaultConfig

MuxerIdle ==
  /\ muxIn = <<>>
  /\ muxSinkOk = TRUE
  /\ muxOut = NullArtifact
  /\ muxPc = "idle"

StoreIdle ==
  /\ scratch = {}
  /\ orphanLog = NoOrphanLog
  /\ storeOut = <<>>

Init == RecorderInit /\ MuxerIdle /\ StoreIdle

\* setClipDuration: split of the total
PreOfCeil(totalSeconds) == (totalSeconds + 1) \div 2
PreOf(totalSeconds) == totalSeconds \div 2

\* setBufferDuration
BufferMsOfSeconds(durationSeconds) == durationSeconds
BufferMsOf(durationSeconds) == durationSeconds * 1000

setClipDuration(totalSeconds) ==
  /\ pcStop = "none"
  /\ preBufferSeconds' = PreOf(totalSeconds)
  /\ postBufferSeconds' = totalSeconds - preBufferSeconds'
  /\ bufferDurationMs' = BufferMsOf(preBufferSeconds')
  /\ emitted' = <<>>
  /\ UNCHANGED <<ioFailed, failures, build, aloneVars, unackedRecording, firstPost, ctlVars, storeVars, loopVars, finVars, scopeActive,
                 pcStop, completedCount, cycleClean>>

\* checkPermissions guard of startBuffering
StartAllowedNoPermissionCheck(perm) == TRUE
StartAllowed(perm) == perm

\* state guard of startBuffering
StartRejectedNever(st) == FALSE
StartRejected(st) == st # "IDLE"

\* startSegmentLoop: recordingScope.launch; a cancelled scope starts nothing
startBuffering(perm) ==
  /\ pcStop = "none"
  /\ IF StartRejected(state)
     THEN /\ emitted' = <<>>
          /\ UNCHANGED <<ctlVars, storeVars, loopVars, completedCount,
                         cycleClean, scratch, orphanLog>>
     ELSE IF ~StartAllowed(perm)
     THEN /\ emitted' = <<Ev("error", "PERMISSION_DENIED")>>
          /\ UNCHANGED <<ctlVars, storeVars, loopVars, completedCount,
                         cycleClean, scratch, orphanLog>>
     ELSE /\ state' = "BUFFERING"
          /\ files' = CleanupOrphanFiles(segments, files)
          /\ scratch' = CleanupOrphanNames(scratch)
          /\ orphanLog' = OrphanLog(segments, files, scratch)
          /\ jobActive' = scopeActive
          /\ pcLoop' = IF scopeActive THEN "while" ELSE pcLoop
          /\ emitted' = <<Ev("stateChanged", "BUFFERING"), Ev("bufferReady", "")>>
          /\ completedCount' = 0
          /\ cycleClean' = TRUE
          /\ UNCHANGED <<preSegments, postSegments, segments, segmentCounter,
                         cur, currentRecording>>
  /\ UNCHANGED <<ioFailed, failures, build, muxVars, storeOut, unackedRecording, firstPost, cfgVars, finVars, scopeActive, pcStop>>

\* state guard of triggerCapture
TriggerAllowedWhileCapturing(st) == st \in {"BUFFERING", "CAPTURING_POST"}
TriggerAllowed(st) == st = "BUFFERING"

\* triggerCapture: preSegments.clear(); preSegments.addAll(freezeBuffer())
TriggerPreNoClear(old, frozen) == old \o frozen
TriggerPre(old, frozen) == frozen

triggerCapture ==
  /\ pcStop = "none"
  /\ IF ~TriggerAllowed(state)
     THEN /\ emitted' = <<Ev("error", "INVALID_STATE")>>
          /\ UNCHANGED <<ctlVars, firstPost>>
     ELSE /\ preSegments' = TriggerPre(preSegments, FreezeBuffer(segments, files))
          /\ postSegments' = <<>>
          /\ state' = "CAPTURING_POST"
          /\ firstPost' = IF pcLoop \in {"record", "stop"}
                          THEN cur ELSE segmentCounter
          /\ emitted' = <<Ev("stateChanged", "CAPTURING_POST"),
                          Ev("captureStarted", "")>>
  /\ UNCHANGED <<ioFailed, failures, build, aloneVars, unackedRecording, cfgVars, storeVars, loopVars, finVars, scopeActive,
                 pcStop, completedCount, cycleClean>>

\* stopCamera, first part: segmentRecordingJob?.cancel(),
\* currentRecording?.stop(), segmentManager.clearBuffer().  The cancelled
\* loop starts no recording any more and every tracked file is deleted, so
\* neither the unacknowledged recording nor the count of backend failures
\* is followed any further.
stopCameraBegin ==
  /\ pcStop = "none"
  /\ pcStop' = "mid"
  /\ jobActive' = FALSE
  /\ currentRecording' = -1
  /\ LET c == ClearBuffer(segments, files)
     IN  /\ segments' = c.segs
         /\ segmentCounter' = c.counter
         /\ files' = c.files
  /\ cycleClean' = FALSE
  /\ firstPost' = -1
  /\ unackedRecording' = -1
  /\ failures' = 0
  /\ emitted' = <<>>
  /\ UNCHANGED <<ioFailed, build, aloneVars, ctlVars, cfgVars, pcLoop, cur, finVars, scopeActive,
                 completedCount>>

\* stopCamera, second part: recordingScope.cancel(); state = State.IDLE
stopCameraEnd ==
  /\ pcStop = "mid"
  /\ pcStop' = "none"
  /\ scopeActive' = FALSE
  /\ state' = "IDLE"
  /\ emitted' = <<>>
  /\ UNCHANGED <<ioFailed, failures, build, aloneVars, unackedRecording, firstPost, preSegments, postSegments, cfgVars, storeVars,
                 loopVars, finVars, completedCount, cycleClean>>

\* ------------------------------------------------------- startSegmentLoop

\* while (isActive && (state == BUFFERING || state == CAPTURING_POST))
LoopCheck ==
  /\ pcLoop = "while"
  /\ pcLoop' = IF jobActive /\ state \in {"BUFFERING", "CAPTURING_POST"}
               THEN "create" ELSE "after"
  /\ emitted' = <<>>
  /\ UNCHANGED <<ioFailed, failures, build, aloneVars, unackedRecording, firstPost, ctlVars, cfgVars, storeVars, jobActive, cur,
                 currentRecording, finVars, scopeActive, pcStop,
                 completedCount, cycleClean>>

\* val segmentFile = segmentManager.createNewSegment()
LoopCreate ==
  /\ pcLoop = "create"
  /\ segmentCounter < MaxIndex
  /\ LET c == CreateNewSegment(segments, segmentCounter, files, bufferDurationMs)
     IN  /\ segments' = c.segs
         /\ segmentCounter' = c.counter
         /\ files' = c.files
         /\ cur' = c.file
  /\ pcLoop' = "record"
  /\ emitted' = <<>>
  /\ UNCHANGED <<ioFailed, failures, build, aloneVars, unackedRecording, firstPost, ctlVars, cfgVars, jobActive, currentRecording,
                 finVars, scopeActive, pcStop, completedCount, cycleClean>>

\* where recordSegment leaves the coroutine when a suspension point finds the
\* job cancelled: the provider build catches the CancellationException and
\* returns to the loop, the controller build lets it end the coroutine
AfterCancel(b) == IF b = "provider" THEN "track" ELSE "none"

\* recordSegment reaching a suspension point (withContext, delay, await)
\* after segmentRecordingJob was cancelled
LoopCancelled ==
  /\ pcLoop \in {"record", "stop"}
  /\ ~jobActive
  /\ pcLoop' = AfterCancel(build)
  /\ cur' = IF pcLoop' = "none" THEN -1 ELSE cur
  /\ emitted' = <<>>
  /\ UNCHANGED <<ioFailed, failures, build, aloneVars, unackedRecording, firstPost, ctlVars, cfgVars, storeVars, jobActive,
                 currentRecording, finVars, scopeActive, pcStop,
                 completedCount, cycleClean>>

\* recordSegment, the recording starts: the output file exists from now on
\* and may already hold bytes (partial is "empty" or "data")
LoopRecordStart(partial) ==
  /\ pcLoop = "record"
  /\ jobActive
  /\ pcLoop' = "stop"
  /\ currentRecording' = cur
  /\ unackedRecording' = cur
  /\ files' = [files EXCEPT ![cur] = partial]
  /\ emitted' = <<>>
  /\ UNCHANGED <<ioFailed, failures, build, aloneVars, firstPost, ctlVars, cfgVars, segments, segmentCounter,
                 jobActive, cur, finVars, scopeActive, pcStop, completedCount,
                 cycleClean>>

\* where recordSegment leaves the loop after a backend error or a timeout:
\* both builds catch the exception and return to the caller's iteration
AfterBackendErrorEndsLoop(b) == "none"
AfterBackendError(b) == "track"

\* recordSegment, the recording does not start (no backend bound, permission
\* missing, start exception or start timeout): nothing is written
LoopRecordStartFail ==
  /\ pcLoop = "record"
  /\ jobActive
  /\ failures < MaxFailures
  /\ failures' = failures + 1
  /\ cycleClean' = FALSE
  /\ pcLoop' = AfterBackendError(build)
  /\ emitted' = <<>>
  /\ UNCHANGED <<ioFailed, build, aloneVars, unackedRecording, firstPost, ctlVars, cfgVars, storeVars, jobActive, cur,
                 currentRecording, finVars, scopeActive, pcStop,
                 completedCount>>

\* recordSegment after delay(SEGMENT_DURATION_MS): currentRecording.stop() and
\* a Finalize event without error; a file deleted meanwhile stays deleted
LoopRecordStop ==
  /\ pcLoop = "stop"
  /\ jobActive
  /\ pcLoop' = "track"
  /\ currentRecording' = -1
  /\ unackedRecording' = -1
  /\ files' = [files EXCEPT ![cur] = IF files[cur] = "none" THEN "none" ELSE "data"]
  /\ emitted' = <<>>
  /\ UNCHANGED <<ioFailed, failures, build, aloneVars, firstPost, ctlVars, cfgVars, segments, segmentCounter,
                 jobActive, cur, finVars, scopeActive, pcStop, completedCount,
                 cycleClean>>

\* recordSegment after the delay, Finalize event with an error: the file is
\* left missing or empty
LoopRecordStopError(leftover) ==
  /\ pcLoop = "stop"
  /\ jobActive
  /\ failures < MaxFailures
  /\ failures' = failures + 1
  /\ cycleClean' = FALSE
  /\ pcLoop' = AfterBackendError(build)
  /\ currentRecording' = -1
  /\ unackedRecording' = -1
  /\ files' = [files EXCEPT ![cur] = IF files[cur] = "none" THEN "none" ELSE leftover]
  /\ emitted' = <<>>
  /\ UNCHANGED <<ioFailed, build, aloneVars, firstPost, ctlVars, cfgVars, segments, segmentCounter,
                 jobActive, cur, finVars, scopeActive, pcStop, completedCount>>

\* recordSegment, withTimeout(2000L) expires before the Finalize event: the
\* exception is caught and recordSegment returns with the recording still
\* unacknowledged (the controller build's start timeout ends the same way)
LoopRecordStopTimeout ==
  /\ pcLoop = "stop"
  /\ jobActive
  /\ failures < MaxFailures
  /\ failures' = failures + 1
  /\ cycleClean' = FALSE
  /\ pcLoop' = AfterBackendError(build)
  /\ currentRecording' = -1
  /\ emitted' = <<>>
  /\ UNCHANGED <<ioFailed, build, aloneVars, unackedRecording, firstPost, ctlVars,
                 cfgVars, storeVars, jobActive, cur, finVars, scopeActive,
                 pcStop, completedCount>>

\* the backend delivers the Finalize event of a recording nobody awaits any
\* more (after a timeout)
BackendFinalize ==
  /\ unackedRecording # -1
  /\ ~(pcLoop = "stop" /\ cur = unackedRecording)
  /\ unackedRecording' = -1
  /\ emitted' = <<>>
  /\ UNCHANGED <<ioFailed, failures, build, aloneVars, firstPost, ctlVars,
                 cfgVars, storeVars, loopVars, finVars, scopeActive, pcStop,
                 completedCount, cycleClean>>

\* postDurationMs >= postBufferSeconds * 1000L
PostCompleteSizeOnly(n, b, postSeconds) == n >= postSeconds * 1000
PostComplete(n, b, postSeconds) ==
  n * RecSegmentDurationMs(b) >= postSeconds * 1000

\* postSegments.add(segmentFile)
PostAppendFront(post, f) == <<f>> \o post
PostAppend(post, f) == Append(post, f)

\* if (state == CAPTURING_POST) { postSegments.add(segmentFile); ... break }
LoopTrack ==
  /\ pcLoop = "track"
  /\ emitted' = <<>>
  /\ IF state = "CAPTURING_POST"
     THEN /\ postSegments' = PostAppend(postSegments, cur)
          /\ pcLoop' = IF PostComplete(Len(postSegments'), build, postBufferSeconds)
                       THEN "after" ELSE "while"
     ELSE /\ pcLoop' = "while"
          /\ UNCHANGED postSegments
  /\ cur' = -1
  /\ UNCHANGED <<ioFailed, failures, build, aloneVars, unackedRecording, firstPost, state, preSegments, cfgVars, storeVars, jobActive,
                 currentRecording, finVars, scopeActive, pcStop,
                 completedCount, cycleClean>>

\* if (state == CAPTURING_POST) withContext(Dispatchers.Main) { ... }: the
\* block is entered only if the job is still active
LoopAfter ==
  /\ pcLoop = "after"
  /\ emitted' = <<>>
  /\ pcLoop' = IF state = "CAPTURING_POST" /\ jobActive
               THEN "finalizeCapture" ELSE "none"
  /\ cur' = -1
  /\ UNCHANGED <<ioFailed, failures, build, aloneVars, unackedRecording, firstPost, ctlVars, cfgVars, storeVars, jobActive,
                 currentRecording, finVars, scopeActive, pcStop,
                 completedCount, cycleClean>>

\* finalizeCapture: state = FINALIZING; recordingScope.launch { ... }
finalizeCapture ==
  /\ pcLoop = "finalizeCapture"
  /\ pcLoop' = "none"
  /\ state' = "FINALIZING"
  /\ pcFin' = IF scopeActive THEN "concat" ELSE pcFin
  /\ emitted' = <<Ev("stateChanged", "FINALIZING")>>
  /\ UNCHANGED <<ioFailed, failures, build, aloneVars, unackedRecording, firstPost, preSegments, postSegments, cfgVars, storeVars,
                 jobActive, cur, currentRecording, outputPath, allSegments, scopeActive,
                 pcStop, completedCount, cycleClean>>

\* val allSegments = preSegments + postSegments
CombinedSegmentsPostFirst(pre, post) == post \o pre
CombinedSegments(pre, post) == pre \o post

\* if (allSegments.isEmpty())
NoSegmentsNever(all) == FALSE
NoSegments(all) == all = <<>>

\* finalize task: allSegments = preSegments + postSegments, then
\* videoMuxer.concatenateSegments.  threw stands for an exception raised in
\* the try body.
FinalizeConcat(sinkOk, threw) ==
  /\ pcFin = "concat"
  /\ pcFin' = "reset"
  /\ allSegments' = CombinedSegments(preSegments, postSegments)
  /\ outputPath' = IF NoSegments(allSegments') THEN "empty"
                   ELSE IF threw THEN "threw"
                   ELSE ConcatenateSegments(allSegments', files, sinkOk)
  /\ ioFailed' = (~sinkOk \/ threw)
  /\ emitted' = <<>>
  /\ UNCHANGED <<cycleClean, failures, build, aloneVars, unackedRecording, firstPost, ctlVars, cfgVars, storeVars, loopVars, scopeActive,
                 pcStop, completedCount>>

\* which outcomes of the finalize task call resetToIdle()
ResetsToIdleExceptCatch(result) == result # "threw"
ResetsToIdle(result) == TRUE

\* the observation each outcome emits
FinalizeObservation(result) ==
  CASE result = "empty" -> Ev("error", "NO_SEGMENTS")
    [] result = "uri"   -> Ev("captureCompleted", result)
    [] result = "null"  -> Ev("error", "MUXER_FAILED")
    [] OTHER            -> Ev("error", "FINALIZE_FAILED")

\* finalize task, withContext(Dispatchers.Main) { callback; resetToIdle() };
\* on a cancelled scope withContext throws and the task ends
FinalizeReset ==
  /\ pcFin = "reset"
  /\ pcFin' = "none"
  /\ outputPath' = "null"
  /\ allSegments' = <<>>
  /\ ioFailed' = FALSE
  /\ IF ~scopeActive
     THEN /\ emitted' = <<>>
          /\ UNCHANGED <<ctlVars, storeVars, completedCount, firstPost>>
     ELSE IF ~ResetsToIdle(outputPath)
     THEN /\ emitted' = <<FinalizeObservation(outputPath)>>
          /\ UNCHANGED <<ctlVars, storeVars, completedCount, firstPost>>
     ELSE /\ firstPost' = -1
          /\ emitted' = <<FinalizeObservation(outputPath),
                          Ev("stateChanged", "IDLE")>>
          /\ completedCount' = completedCount +
                                 (IF outputPath = "uri" THEN 1 ELSE 0)
          /\ preSegments' = <<>>
          /\ postSegments' = <<>>
          /\ LET c == ClearBuffer(segments, files)
             IN  /\ segments' = c.segs
                 /\ segmentCounter' = c.counter
                 /\ files' = c.files
          /\ state' = "IDLE"
  /\ UNCHANGED <<failures, build, aloneVars, unackedRecording, cfgVars, loopVars, scopeActive, pcStop,
                 cycleClean>>

Loop ==
  \/ LoopCheck
  \/ LoopCreate
  \/ LoopCancelled
  \/ \E partial \in {"empty", "data"} : LoopRecordStart(partial)
  \/ LoopRecordStartFail
  \/ LoopRecordStop
  \/ \E leftover \in {"none", "empty"} : LoopRecordStopError(leftover)
  \/ LoopRecordStopTimeout
  \/ LoopTrack
  \/ LoopAfter
  \/ finalizeCapture

Finalize ==
  \/ \E sinkOk \in BOOLEAN, threw \in BOOLEAN : FinalizeConcat(sinkOk, threw)
  \/ FinalizeReset

Next ==
  \/ \E totalSeconds \in ClipDurations : setClipDuration(totalSeconds)
  \/ \E perm \in BOOLEAN : startBuffering(perm)
  \/ triggerCapture
  \/ stopCameraBegin
  \/ stopCameraEnd
  \/ Loop
  \/ Finalize
  \/ BackendFinalize

Spec == Init /\ [][Next]_vars

\* the finalize task, once launched on recordingScope, is scheduled until it
\* ends; nothing is assumed about the loop or the caller
FairSpec == Spec /\ WF_vars(Finalize)

\* the loop coroutine, once launched, is scheduled until it ends
LoopFairSpec == Spec /\ WF_vars(Loop)

\* --------------------------------------------- setClipDuration called alone

ClipNext == \E totalSeconds \in ClipTotals : setClipDuration(totalSeconds)

ClipSpec == Init /\ [][ClipNext]_vars

\* ------------------------- capture cycles without backend failure or stop

\* totals the session is configured with before it starts
CaptureTotals == 2..MaxCaptureTotal

\* setClipDuration called while nothing runs
ConfigureIdle ==
  /\ state = "IDLE"
  /\ pcLoop = "none"
  /\ pcFin = "none"
  /\ \E totalSeconds \in CaptureTotals : setClipDuration(totalSeconds)

\* the loop with every recording starting and finalizing in time
CaptureLoop ==
  \/ LoopCheck
  \/ LoopCreate
  \/ \E partial \in {"empty", "data"} : LoopRecordStart(partial)
  \/ LoopRecordStop
  \/ LoopTrack
  \/ LoopAfter
  \/ finalizeCapture

CaptureNext ==
  \/ ConfigureIdle
  \/ startBuffering(TRUE)
  \/ triggerCapture
  \/ CaptureLoop
  \/ Finalize

\* the recorder constructed and configured with setClipDuration
CaptureInit ==
  /\ RecorderStart
  /\ \E totalSeconds \in CaptureTotals :
       /\ preBufferSeconds = PreOf(totalSeconds)
       /\ postBufferSeconds = totalSeconds - preBufferSeconds
       /\ bufferDurationMs = BufferMsOf(preBufferSeconds)
  /\ MuxerIdle
  /\ StoreIdle

CaptureSpec == CaptureInit /\ [][CaptureNext]_vars

\* the loop coroutine and the finalize task are scheduled by Dispatchers.IO
CaptureFairSpec == CaptureSpec /\ WF_vars(CaptureLoop) /\ WF_vars(Finalize)

\* --------------------------------------------- SegmentManager called alone

\* bufferDurationMs values setBufferDuration is called with, in seconds
StoreDurations == 0..MaxStoreSeconds
\* durationMs values getPreCaptureSegments is called with
TargetDurations == {0, 500, 1000, 1500}

\* what a SegmentManager call leaves alone outside the store
StoreFrame == UNCHANGED <<build, ctlVars, preBufferSeconds, postBufferSeconds,
                          loopVars, finVars, scopeActive, pcStop, emitted,
                          failures, completedCount, cycleClean, ioFailed,
                          unackedRecording, firstPost, muxVars>>

setBufferDuration(durationSeconds) ==
  /\ bufferDurationMs' = BufferMsOf(durationSeconds)
  /\ storeOut' = <<>>
  /\ orphanLog' = NoOrphanLog
  /\ UNCHANGED <<storeVars, scratch>>
  /\ StoreFrame

createNewSegment ==
  /\ segmentCounter < MaxStoreIndex
  /\ LET c == CreateNewSegment(segments, segmentCounter, files, bufferDurationMs)
     IN  /\ segments' = c.segs
         /\ segmentCounter' = c.counter
         /\ files' = c.files
  /\ storeOut' = <<>>
  /\ orphanLog' = NoOrphanLog
  /\ UNCHANGED <<bufferDurationMs, scratch>>
  /\ StoreFrame

getPreCaptureSegments(durationMs) ==
  /\ storeOut' = GetPreCaptureSegments(segments, files, durationMs)
  /\ orphanLog' = NoOrphanLog
  /\ UNCHANGED <<storeVars, bufferDurationMs, scratch>>
  /\ StoreFrame

freezeBuffer ==
  /\ storeOut' = FreezeBuffer(segments, files)
  /\ orphanLog' = NoOrphanLog
  /\ UNCHANGED <<storeVars, bufferDurationMs, scratch>>
  /\ StoreFrame

clearBuffer ==
  /\ LET c == ClearBuffer(segments, files)
     IN  /\ segments' = c.segs
         /\ segmentCounter' = c.counter
         /\ files' = c.files
  /\ storeOut' = <<>>
  /\ orphanLog' = NoOrphanLog
  /\ UNCHANGED <<bufferDurationMs, scratch>>
  /\ StoreFrame

cleanupOrphanFiles ==
  /\ files' = CleanupOrphanFiles(segments, files)
  /\ scratch' = CleanupOrphanNames(scratch)
  /\ orphanLog' = OrphanLog(segments, files, scratch)
  /\ storeOut' = <<>>
  /\ UNCHANGED <<segments, segmentCounter, bufferDurationMs>>
  /\ StoreFrame

\* the recording backend writes the file of a tracked segment, or the file
\* is lost; an earlier process may have left a file under the next name
WriteSegmentFile(i, st) ==
  /\ files[i] # st
  /\ i \in Range(segments) \cup {segmentCounter}
  /\ files' = [files EXCEPT ![i] = st]
  /\ storeOut' = <<>>
  /\ orphanLog' = NoOrphanLog
  /\ UNCHANGED <<segments, segmentCounter, bufferDurationMs, scratch>>
  /\ StoreFrame

\* another file appears in the scratch directory
WriteScratchFile(n) ==
  /\ n \notin scratch
  /\ scratch' = scratch \cup {n}
  /\ storeOut' = <<>>
  /\ orphanLog' = NoOrphanLog
  /\ UNCHANGED <<storeVars, bufferDurationMs>>
  /\ StoreFrame

StoreNext ==
  \/ \E durationSeconds \in StoreDurations : setBufferDuration(durationSeconds)
  \/ createNewSegment
  \/ \E durationMs \in TargetDurations : getPreCaptureSegments(durationMs)
  \/ freezeBuffer
  \/ clearBuffer
  \/ cleanupOrphanFiles
  \/ \E i \in Indices, st \in FileStates : WriteSegmentFile(i, st)
  \/ \E n \in ScratchNames : WriteScratchFile(n)

\* one binding is enough: SegmentManager is the same in both
StoreInit == Init /\ build = "provider"

StoreSpec == StoreInit /\ [][StoreNext]_vars

\* ------------------------------------------------- VideoMuxer called alone

MuxInit ==
  /\ RecorderInit
  /\ muxIn \in MuxInputs
  /\ muxSinkOk \in BOOLEAN
  /\ muxOut = NullArtifact
  /\ muxPc = "ready"
  /\ StoreIdle

concatenateSegments ==
  /\ muxPc = "ready"
  /\ muxPc' = "done"
  /\ muxOut' = ConcatenateOutput(muxIn, muxSinkOk)
  /\ UNCHANGED <<recorderVars, muxIn, muxSinkOk, scratch, orphanLog, storeOut>>

MuxNext == concatenateSegments

MuxSpec == MuxInit /\ [][MuxNext]_vars

\* ------------------------------------- the finalize task on its own inputs

\* lists the task may find in preSegments and postSegments
PreLists == {<<>>, <<0>>, <<0, 1>>}
PostLists == {<<>>, <<2>>, <<2, 3>>}

\* finalizeCapture has just launched the task on a live scope
FinalizeInit ==
  /\ build \in Builds
  /\ state = "FINALIZING"
  /\ preBufferSeconds = DEFAULT_BUFFER_SECONDS
  /\ postBufferSeconds = DEFAULT_BUFFER_SECONDS
  /\ preSegments \in PreLists
  /\ postSegments \in PostLists
  /\ segments = preSegments \o postSegments
  /\ segmentCounter = 4
  /\ bufferDurationMs = DEFAULT_BUFFER_MS
  /\ files \in [Indices -> FileStates]
  /\ jobActive = TRUE
  /\ scopeActive = TRUE
  /\ pcLoop = "none"
  /\ cur = -1
  /\ currentRecording = -1
  /\ pcFin = "concat"
  /\ outputPath = "null"
  /\ pcStop = "none"
  /\ emitted = <<Ev("stateChanged", "FINALIZING")>>
  /\ failures = 0
  /\ completedCount = 0
  /\ cycleClean = TRUE
  /\ ioFailed = FALSE
  /\ unackedRecording = -1
  /\ firstPost = 2
  /\ allSegments = <<>>
  /\ MuxerIdle
  /\ StoreIdle

FinalizeSpec == FinalizeInit /\ [][Finalize]_vars

\* ==================================================================== claims

CeilDiv(a, b) == (a + b - 1) \div b
Count(evs, n) == Cardinality({k \in 1..Len(evs) : evs[k].name = n})
PostWindowMs == postBufferSeconds * 1000

\* C1: after every createNewSegment() returns, the store tracks at most
\* ceil(windowDuration / segmentDuration) + 2 segments.
C1_StoreBounded ==
  [][LoopCreate =>
       Len(segments') <= CeilDiv(bufferDurationMs', SEGMENT_DURATION_MS) + 2]_vars

\* an insertion has just filled the window and evicted an older segment
C1_Witness ==
  /\ pcLoop = "record"
  /\ Len(segments) = CeilDiv(bufferDurationMs, SEGMENT_DURATION_MS) + 2
  /\ segmentCounter > Len(segments)

\* C2: while a capture is in progress, an insertion (and its trim) deletes the
\* file of no segment held in the preSegments snapshot.
C2_FrozenNotTrimmed ==
  [][(LoopCreate /\ state = "CAPTURING_POST") =>
       \A i \in Range(preSegments) : files[i] = "data" => files'[i] = "data"]_vars

\* C3: triggerCapture() outside Buffering reports INVALID_STATE and changes
\* neither the session state, preSegments, postSegments nor the store.
C3_TriggerRejected ==
  [][(triggerCapture /\ state # "BUFFERING") =>
       /\ emitted' = <<Ev("error", "INVALID_STATE")>>
       /\ UNCHANGED <<state, preSegments, postSegments, segments,
                      segmentCounter, files>>]_vars

\* a rejected trigger during a capture that holds post segments
C3_Witness ==
  /\ state = "CAPTURING_POST"
  /\ postSegments # <<>>
  /\ emitted = <<Ev("error", "INVALID_STATE")>>

\* C4: triggerCapture() in Buffering stores the frozen list as preSegments,
\* empties postSegments, enters CapturingPost, emits captureStarted once.
C4_TriggerAccepted ==
  [][(triggerCapture /\ state = "BUFFERING") =>
       /\ preSegments' = FreezeBuffer(segments, files)
       /\ postSegments' = <<>>
       /\ state' = "CAPTURING_POST"
       /\ Count(emitted', "captureStarted") = 1]_vars

\* a trigger has just frozen a non-empty buffer
C4_Witness ==
  /\ state = "CAPTURING_POST"
  /\ Count(emitted, "captureStarted") = 1
  /\ preSegments # <<>>
  /\ postSegments = <<>>

\* C5: on entry to Finalizing (stopCamera never called) the post segments
\* reach postWindow and the segments before the last one do not.
C5_ExitExactlyAtPostWindow ==
  [][(finalizeCapture /\ scopeActive /\ pcStop = "none") =>
       /\ Len(postSegments) * RecSegmentDurationMs(build) >= PostWindowMs
       /\ (Len(postSegments) - 1) * RecSegmentDurationMs(build) < PostWindowMs]_vars

\* C6: without stopCamera, Finalizing leads to Idle whatever the outcome of
\* the concatenation, and the reset leaves both lists and the store empty.
C6_FinalizingLeadsToIdle ==
  /\ (state = "FINALIZING" /\ scopeActive /\ pcStop = "none") ~> (state = "IDLE")
  /\ [][(FinalizeReset /\ scopeActive) =>
          /\ state' = "IDLE"
          /\ preSegments' = <<>>
          /\ postSegments' = <<>>
          /\ segments' = <<>>]_vars

\* the session was reset after the concatenation threw
C6_Witness ==
  /\ state = "IDLE"
  /\ emitted = <<Ev("error", "FINALIZE_FAILED"), Ev("stateChanged", "IDLE")>>
  /\ segments = <<>>

C8_StopLeavesStoreEmpty ==
  [][stopCameraEnd => (state' = "IDLE" /\ segments' = <<>>)]_vars

\* C9: startBuffering() in Idle without permission emits PERMISSION_DENIED,
\* stays Idle, launches no loop and creates no segment.
C9_PermissionDenied ==
  [][(startBuffering(FALSE) /\ state = "IDLE") =>
       /\ emitted' = <<Ev("error", "PERMISSION_DENIED")>>
       /\ state' = "IDLE"
       /\ UNCHANGED <<pcLoop, jobActive, segments, segmentCounter, files>>]_vars

\* a start was refused on a recorder that is still able to run a loop
C9_Witness ==
  /\ state = "IDLE"
  /\ scopeActive
  /\ pcLoop = "none"
  /\ emitted = <<Ev("error", "PERMISSION_DENIED")>>

\* C10: setClipDuration(T), T >= 2, yields preWindow = floor(T/2),
\* postWindow = T - preWindow and the store window set to preWindow.
C10_ClipSplit ==
  [][\A T \in ClipTotals :
       setClipDuration(T) =>
         /\ 2 * preBufferSeconds' <= T
         /\ T < 2 * preBufferSeconds' + 2
         /\ postBufferSeconds' = T - preBufferSeconds'
         /\ preBufferSeconds' + postBufferSeconds' = T
         /\ bufferDurationMs' = preBufferSeconds' * 1000]_vars

\* an odd total has been split
C10_Witness ==
  /\ preBufferSeconds = 1
  /\ postBufferSeconds = 2
  /\ bufferDurationMs = 1000

NoStop == scopeActive /\ pcStop = "none"
Increasing(q) == \A k \in 1..(Len(q) - 1) : q[k] < q[k + 1]
BackendError ==
  \/ LoopRecordStartFail
  \/ LoopRecordStopTimeout
  \/ \E leftover \in {"none", "empty"} : LoopRecordStopError(leftover)

\* C11: a backend error or timeout ends only its iteration: the loop goes on
\* to the tracking step, from there to a further iteration unless the post
\* window is complete or stopCamera was called, and it is never ended while
\* the state is Buffering or CapturingPost and stopCamera was not called.
C11_LoopContinues ==
  /\ [][BackendError => pcLoop' = "track"]_vars
  /\ [](state \in {"BUFFERING", "CAPTURING_POST"} /\ NoStop => pcLoop # "none")
  /\ (pcLoop = "track" /\ NoStop)
       ~> (pcLoop = "create" \/ (pcLoop = "after" /\ state = "CAPTURING_POST") \/ ~NoStop)

\* the loop records again in the session in which a recording failed
C11_Witness ==
  /\ state = "BUFFERING"
  /\ NoStop
  /\ ~cycleClean
  /\ failures > 0
  /\ pcLoop = "stop"

\* C12: the loop starts a recording only when no earlier recording is still
\* waiting for its Finalize event.
C12_OneInFlight ==
  [][(\E partial \in {"empty", "data"} : LoopRecordStart(partial)) =>
       unackedRecording = -1]_vars

LastTracked ==
  IF pcLoop \in {"record", "stop", "track"} THEN cur - 1 ELSE segmentCounter - 1

\* C13: during CapturingPost (stopCamera never called) postSegments holds, in
\* creation order and without a hole, every segment from the first one that
\* was unfinished at the trigger up to the last one the loop has completed.
C13_PostSegmentsComplete ==
  (state = "CAPTURING_POST" /\ NoStop) =>
    /\ \A k \in 1..(Len(postSegments) - 1) :
         postSegments[k + 1] = postSegments[k] + 1
    /\ \A i \in firstPost..LastTracked : i \in Range(postSegments)
    /\ postSegments # <<>> => postSegments[Len(postSegments)] = LastTracked

\* two segments were recorded after the trigger and the capture goes on
C13_Witness ==
  /\ state = "CAPTURING_POST"
  /\ NoStop
  /\ Len(postSegments) = 2
  /\ pcLoop = "while"
  /\ firstPost = postSegments[1]

\* C14: the finalize task hands preSegments followed by postSegments to the
\* muxer, each list in creation order.
C14_ConcatInputOrder ==
  [][(\E sinkOk \in BOOLEAN, threw \in BOOLEAN : FinalizeConcat(sinkOk, threw)) =>
       /\ allSegments' = preSegments \o postSegments
       /\ Increasing(preSegments)
       /\ Increasing(postSegments)]_vars

\* the task took a list with both a pre and a post part
C14_Witness ==
  /\ pcFin = "reset"
  /\ scopeActive
  /\ preSegments # <<>>
  /\ postSegments # <<>>
  /\ allSegments = preSegments \o postSegments

\* C15: concatenating one existing segment saves an artifact that is the
\* byte copy of that file (unless the sink refuses it).
C15_SingleSegmentIdentical ==
  (muxPc = "done" /\ Len(muxIn) = 1 /\ muxIn[1].kind # "missing") =>
    IF muxSinkOk
    THEN muxOut.kind = "copy" /\ muxOut.bytes = muxIn[1]
    ELSE muxOut = NullArtifact

\* one valid segment was concatenated
C15_Witness ==
  /\ muxPc = "done"
  /\ Len(muxIn) = 1
  /\ muxIn[1].kind = "valid"
  /\ muxOut.kind = "copy"

OutTracks == IF muxOut.kind = "muxed" THEN {muxOut.video, muxOut.audio} ELSE {}
SegsOf(t) == {t[i].seg : i \in 1..Len(t)}
MaxPtsOfSeg(t, k) == MaxOf({t[i].pts : i \in {j \in 1..Len(t) : t[j].seg = k}})

\* C16: in every output track each sample of a later segment has a timestamp
\* strictly greater than every sample written from an earlier segment.
C16_StrictlyIncreasingAcrossSegments ==
  muxPc = "done" =>
    \A t \in OutTracks : \A i, j \in 1..Len(t) :
      t[i].seg < t[j].seg => t[i].pts < t[j].pts

\* three segments contributed samples to the video track
C16_Witness ==
  /\ muxPc = "done"
  /\ muxOut.kind = "muxed"
  /\ Cardinality(SegsOf(muxOut.video)) = 3

\* C17: at every segment boundary of an output track the first timestamp of
\* the next segment is at most one frame duration after the largest timestamp
\* of the previous one.
C17_BoundaryGapAtMostOneFrame ==
  muxPc = "done" =>
    \A t \in OutTracks : \A i \in 1..(Len(t) - 1) :
      t[i].seg # t[i + 1].seg =>
        t[i + 1].pts - MaxPtsOfSeg(t, t[i].seg) <= FRAME_DURATION_US

ValidOnly(segs) == SelectSeq(segs, LAMBDA f : f.kind = "valid")
PtsOf(t) == [i \in 1..Len(t) |-> t[i].pts]
CountOfSeg(t, k) == Cardinality({i \in 1..Len(t) : t[i].seg = k})

\* what the muxer must produce from the valid segments alone: per carried
\* track the samples of every valid segment, in input order, with the
\* timestamps the valid segments get when concatenated by themselves
OnlyValidSamples ==
  /\ muxOut.kind = "muxed"
  /\ LET ref == ConcatenateWithMuxer(ValidOnly(muxIn))
     IN  /\ PtsOf(muxOut.video) = PtsOf(ref.video)
         /\ PtsOf(muxOut.audio) = PtsOf(ref.audio)
         /\ \A k \in 1..Len(muxIn) :
              /\ muxIn[k].kind # "valid" =>
                   k \notin SegsOf(muxOut.video) \cup SegsOf(muxOut.audio)
              /\ (muxIn[k].kind = "valid" /\ ref.videoTrackIndex >= 0) =>
                   CountOfSeg(muxOut.video, k) = Len(muxIn[k].video.samples)
              /\ (muxIn[k].kind = "valid" /\ ref.audioTrackIndex >= 0) =>
                   CountOfSeg(muxOut.audio, k) = Len(muxIn[k].audio.samples)
         /\ \A i, j \in 1..Len(muxOut.video) :
              i < j => muxOut.video[i].seg <= muxOut.video[j].seg

HasSkipped == \E k \in 1..Len(muxIn) : muxIn[k].kind # "valid"
HasValid == \E k \in 1..Len(muxIn) : muxIn[k].kind = "valid"

\* C18 as stated: a list with a missing or zero-length segment is concatenated
\* without error (the sink accepting) and the output holds exactly the samples
\* of the valid segments.
C18_MissingSkipped ==
  (muxPc = "done" /\ muxSinkOk /\ HasSkipped) =>
    /\ muxOut # NullArtifact
    /\ muxOut.kind = "muxed" => OnlyValidSamples

\* C18 amended: the same for a list that also holds at least one valid
\* segment.
C18_MissingSkippedSomeValid ==
  (muxPc = "done" /\ muxSinkOk /\ HasSkipped /\ HasValid) => OnlyValidSamples

\* the list {valid, missing, valid} was concatenated
C18_Witness ==
  /\ muxPc = "done"
  /\ muxSinkOk
  /\ Len(muxIn) = 3
  /\ muxIn[1].kind = "valid"
  /\ muxIn[2].kind = "missing"
  /\ muxIn[3].kind = "valid"
  /\ SegsOf(muxOut.video) = {1, 3}

\* C19: the finalize task on an empty combined list does not call the muxer
\* (nothing reaches the sink), emits NO_SEGMENTS and no captureCompleted, and
\* resets the session to Idle; concatenateSegments on an empty list is null.
C19_NoSegments ==
  /\ [][(\E sinkOk \in BOOLEAN, threw \in BOOLEAN : FinalizeConcat(sinkOk, threw))
          /\ preSegments \o postSegments = <<>> => outputPath' = "empty"]_vars
  /\ [][(FinalizeReset /\ outputPath = "empty" /\ scopeActive) =>
          /\ emitted' = <<Ev("error", "NO_SEGMENTS"), Ev("stateChanged", "IDLE")>>
          /\ completedCount' = completedCount
          /\ state' = "IDLE"
          /\ preSegments' = <<>>
          /\ postSegments' = <<>>]_vars
  /\ [](\A sinkOk \in BOOLEAN : ConcatenateSegments(<<>>, files, sinkOk) = "null")

\* the session was reset after the task found both lists empty
C19_Witness ==
  /\ state = "IDLE"
  /\ pcFin = "none"
  /\ emitted = <<Ev("error", "NO_SEGMENTS"), Ev("stateChanged", "IDLE")>>

\* C20: the list freezeBuffer() returns to an accepted trigger holds only
\* tracked segments whose file exists with data, strictly ordered by index,
\* and the store is left as it was.
C20_FreezeResult ==
  [][(triggerCapture /\ state = "BUFFERING") =>
       /\ \A k \in 1..Len(preSegments') :
            /\ preSegments'[k] \in Range(segments)
            /\ files[preSegments'[k]] = "data"
       /\ Increasing(preSegments')
       /\ UNCHANGED <<segments, segmentCounter, files, bufferDurationMs>>]_vars

\* a trigger froze a store that tracks a segment without data
C20_Witness ==
  /\ state = "CAPTURING_POST"
  /\ Count(emitted, "captureStarted") = 1
  /\ preSegments # <<>>
  /\ \E k \in 1..Len(segments) : files[segments[k]] # "data"

Min2(a, b) == IF a < b THEN a ELSE b
Suffix(q, n) == SubSeq(q, Len(q) - n + 1, Len(q))
Valid(segs, fs) == SelectSeq(segs, LAMBDA i : fs[i] = "data")
AnyWindowQuery == \E durationMs \in TargetDurations : getPreCaptureSegments(durationMs)

\* C21: after an insertion the tracked segments are the min(n, maxSegments)
\* newest of the n = count + 1 segments tracked before the trim, with
\* consecutive increasing indices ending at the new one; exactly the evicted
\* oldest ones lose their file, whether or not the file existed.
C21_TrimKeepsNewest ==
  [][createNewSegment =>
       LET all == Append(segments, segmentCounter)
           keep == Min2(Len(all), MaxSegmentsOf(bufferDurationMs))
       IN  /\ segments' = Suffix(all, keep)
           /\ Increasing(segments')
           /\ segments'[Len(segments')] = segmentCounter
           /\ \A k \in 1..(Len(segments') - 1) :
                segments'[k + 1] = segments'[k] + 1
           /\ \A i \in Indices :
                files'[i] = IF i \in Range(all) \ Range(segments')
                            THEN "none" ELSE files[i]]_vars

\* the store is full and its oldest segments have been evicted
C21_Witness ==
  /\ Len(segments) = MaxSegmentsOf(bufferDurationMs)
  /\ segments[1] > 0
  /\ segments[Len(segments)] = segmentCounter - 1

\* C22: no query returns a segment whose file is missing or empty; such a
\* segment stays tracked when its file is lost and is counted by the trim of
\* the next insertion like any other.
C22_InvalidHiddenButCounted ==
  /\ [][storeOut' # <<>> =>
          /\ freezeBuffer \/ AnyWindowQuery
          /\ \A k \in 1..Len(storeOut') : files[storeOut'[k]] = "data"]_vars
  /\ [][segments' # segments => createNewSegment \/ clearBuffer]_vars
  /\ [][createNewSegment =>
          Len(segments') =
            Min2(Len(segments) + 1, MaxSegmentsOf(bufferDurationMs))]_vars

\* a query on a full store left out a tracked segment without data
C22_Witness ==
  /\ storeOut # <<>>
  /\ Len(segments) = MaxSegmentsOf(bufferDurationMs)
  /\ \E k \in 1..Len(segments) :
       files[segments[k]] # "data" /\ segments[k] \notin Range(storeOut)

\* the shortest newest-end suffix of the valid segments that reaches the
\* target, or all of them
ShortestSuffix(valid, durMs) ==
  LET enough == {n \in 0..Len(valid) : n * SEGMENT_DURATION_MS >= durMs}
  IN  IF enough = {} THEN valid
      ELSE Suffix(valid, CHOOSE n \in enough : \A m \in enough : n <= m)

\* C26 as stated: getPreCaptureSegments returns that suffix for every target
\* and leaves the store alone.
C26_WindowIsShortestSuffix ==
  [][\A durationMs \in TargetDurations :
       (files' = files /\ getPreCaptureSegments(durationMs)) =>
         /\ storeOut' = ShortestSuffix(Valid(segments, files), durationMs)
         /\ UNCHANGED <<storeVars, bufferDurationMs, scratch>>]_vars

\* C26 amended: the same for a positive target.
C26_WindowIsShortestSuffixPositive ==
  [][\A durationMs \in TargetDurations \ {0} :
       (files' = files /\ getPreCaptureSegments(durationMs)) =>
         /\ storeOut' = ShortestSuffix(Valid(segments, files), durationMs)
         /\ UNCHANGED <<storeVars, bufferDurationMs, scratch>>]_vars

\* the query returned two segments, skipping an invalid one between them and
\* leaving out an older valid one
C26_Witness ==
  /\ Len(storeOut) = 2
  /\ Len(Valid(segments, files)) > 2
  /\ storeOut[2] > storeOut[1] + 1

\* C27: clearBuffer leaves no segment tracked, no file of a tracked segment
\* and the counter at zero, and the insertion that follows gets index 0.
C27_ClearResets ==
  /\ [][clearBuffer =>
          /\ segments' = <<>>
          /\ segmentCounter' = 0
          /\ \A i \in Range(segments) : files'[i] = "none"]_vars
  /\ [][(createNewSegment /\ segments = <<>> /\ segmentCounter = 0) =>
          segments' = <<0>> /\ segmentCounter' = 1]_vars

\* the store was cleared after three names had been in use, and the next
\* insertion got index 0
C27_Witness ==
  /\ segments = <<0>>
  /\ segmentCounter = 1
  /\ files[2] = "data"

\* C28: cleanupOrphanFiles deletes exactly the untracked files named
\* segment_*.mp4: no tracked file and no file of another name.
C28_OrphansOnly ==
  [][cleanupOrphanFiles =>
       /\ \A i \in Indices :
            files'[i] = IF i \in Range(segments) THEN files[i] ELSE "none"
       /\ scratch' = {n \in scratch :
                        ~(n.prefix = "segment_" /\ n.extension = "mp4")}
       /\ UNCHANGED <<segments, segmentCounter, bufferDurationMs>>]_vars

\* a cleanup deleted an orphan of each kind and kept a tracked file and a
\* file of another name
C28_Witness ==
  /\ orphanLog.files # {}
  /\ orphanLog.names # {}
  /\ scratch # {}
  /\ \E k \in 1..Len(segments) : files[segments[k]] = "data"

\* C29: setBufferDuration changes only the window; the tracked segments, the
\* counter and the files stay, and the insertion that follows trims to the
\* new maxSegments.
C29_WindowChangeDeferred ==
  /\ [][\A durationSeconds \in StoreDurations :
          setBufferDuration(durationSeconds) =>
            /\ bufferDurationMs' = durationSeconds * 1000
            /\ UNCHANGED <<storeVars, scratch>>]_vars
  /\ [][createNewSegment =>
          Len(segments') <= MaxSegmentsOf(bufferDurationMs)]_vars

\* the window was shortened below what the store tracks
C29_Witness ==
  /\ Len(segments) > MaxSegmentsOf(bufferDurationMs)
  /\ storeOut = <<>>

Present(q) == SelectSeq(q, LAMBDA i : files[i] = "data")
NominalMs(q) == Len(q) * RecSegmentDurationMs(build)
Emits(n) == \E k \in 1..Len(emitted) : emitted[k].name = n

\* C23: when the finalize task concatenates, the frozen pre segments still
\* present cover preWindow if the frozen list did, and are the whole frozen
\* list if it did not; the post segments present cover postWindow.
C23_ArtifactCoversWindows ==
  [][(\E sinkOk \in BOOLEAN, threw \in BOOLEAN : FinalizeConcat(sinkOk, threw)) =>
       /\ IF NominalMs(preSegments) >= preBufferSeconds * 1000
          THEN NominalMs(Present(preSegments)) >= preBufferSeconds * 1000
          ELSE Present(preSegments) = preSegments
       /\ NominalMs(Present(postSegments)) >= postBufferSeconds * 1000]_vars

C25_OnlyCompletedAppended ==
  [][(LoopTrack /\ NoStop /\ postSegments' # postSegments) =>
       files[cur] = "data"]_vars

\* C30: every step that changes the state emits stateChanged with the new
\* state.
C30_StateChangeObserved ==
  [][state' # state =>
       \E k \in 1..Len(emitted') : emitted'[k] = Ev("stateChanged", state')]_vars

\* C31: the state changes only by Idle -> Buffering in startBuffering,
\* Buffering -> CapturingPost in triggerCapture, CapturingPost -> Finalizing
\* when the loop hands over, Finalizing -> Idle in the reset of the finalize
\* task, and any -> Idle in stopCamera.
C31_OnlyListedTransitions ==
  [][state' # state =>
       \/ state = "IDLE" /\ state' = "BUFFERING" /\ startBuffering(TRUE)
       \/ state = "BUFFERING" /\ state' = "CAPTURING_POST" /\ triggerCapture
       \/ state = "CAPTURING_POST" /\ state' = "FINALIZING" /\ finalizeCapture
       \/ state = "FINALIZING" /\ state' = "IDLE" /\ FinalizeReset
       \/ state' = "IDLE" /\ stopCameraEnd]_vars

\* C32: an accepted startBuffering() enters Buffering, leaves no untracked
\* segment file, has the loop launched, and emits stateChanged(Buffering)
\* followed by exactly one bufferReady.
C32_StartBuffering ==
  [][(startBuffering(TRUE) /\ state = "IDLE") =>
       /\ state' = "BUFFERING"
       /\ \A i \in Indices : i \notin Range(segments') => files'[i] = "none"
       /\ \A n \in scratch' : ~MatchesConvention(n)
       /\ jobActive'
       /\ pcLoop' # "none"
       /\ emitted' = <<Ev("stateChanged", "BUFFERING"), Ev("bufferReady", "")>>]_vars

SamplesOfSeg(t, k) == SelectSeq(t, LAMBDA w : w.seg = k)
MuxerAfter(k) == ConcatenateWithMuxer(SubSeq(muxIn, 1, k))
Rewritten(track, k, offset) ==
  [i \in 1..Len(track.samples) |->
     [pts |-> track.samples[i].time + offset, size |-> track.samples[i].size,
      flags |-> track.samples[i].flags, seg |-> k]]
MaxWritten(t) == MaxOf({t[i].pts : i \in 1..Len(t)})

\* C33: per valid segment and carried track, the samples written are the
\* segment's samples in file order with the running offset added and size
\* and flags kept, and after the segment the track's running offset is the
\* largest timestamp written to that track plus one frame duration.
C33_SamplesRewritten ==
  (muxPc = "done" /\ muxOut.kind = "muxed") =>
    \A k \in 1..Len(muxIn) :
      muxIn[k].kind = "valid" =>
        LET before == MuxerAfter(k - 1)
            after == MuxerAfter(k)
        IN  /\ after.videoTrackIndex >= 0 =>
                 /\ SamplesOfSeg(muxOut.video, k) =
                      Rewritten(muxIn[k].video, k, before.lastVideoPts)
                 /\ after.video # <<>> =>
                      after.lastVideoPts = MaxWritten(after.video) + FRAME_DURATION_US
            /\ after.audioTrackIndex >= 0 =>
                 /\ SamplesOfSeg(muxOut.audio, k) =
                      Rewritten(muxIn[k].audio, k, before.lastAudioPts)
                 /\ after.audio # <<>> =>
                      after.lastAudioPts = MaxWritten(after.audio) + FRAME_DURATION_US

\* C34: no segment is in preSegments and in postSegments.
C34_PreAndPostDisjoint ==
  Range(preSegments) \cap Range(postSegments) = {}

\* C35: once stopCamera() has returned and until the next startBuffering(),
\* the state stays Idle and no segment is created.
C35_IdleAfterStop ==
  [][(~scopeActive /\ pcStop = "none" /\ state = "IDLE") =>
       /\ state' # "IDLE" => (state' = "BUFFERING" /\ startBuffering(TRUE))
       /\ segmentCounter' <= segmentCounter]_vars

\* C36: whenever the state is Buffering or CapturingPost (and no stopCamera
\* is under way) a segment loop is running, also after an earlier stop.
C36_LoopRunsWhileBuffering ==
  (state \in {"BUFFERING", "CAPTURING_POST"} /\ pcStop = "none") =>
    (pcLoop # "none" /\ jobActive)

\* C37: startBuffering() outside Idle emits nothing and changes neither the
\* state, the files, the store, the lists nor the loop; a loop is launched
\* only when none exists.
C37_StartIgnoredOutsideIdle ==
  /\ [][\A perm \in BOOLEAN :
          (state # "IDLE" /\ startBuffering(perm)) =>
            /\ emitted' = <<>>
            /\ UNCHANGED <<state, files, scratch, orphanLog, segments,
                           segmentCounter, preSegments, postSegments,
                           pcLoop, jobActive, cur>>]_vars
  /\ [][(state = "IDLE" /\ startBuffering(TRUE) /\ jobActive') =>
          pcLoop = "none"]_vars

\* a loop is recording in Buffering and the last step, which a refused
\* startBuffering() is, emitted nothing
C37_Witness ==
  /\ state = "BUFFERING"
  /\ jobActive
  /\ pcLoop = "stop"
  /\ emitted = <<>>

\* C38: when every segment of a non-empty combined list is missing or
\* zero-length at concatenation time, nothing is saved to the sink and the
\* finalize task has no artifact to report.
C38_NoArtifactWithoutSamples ==
  [][((\E sinkOk \in BOOLEAN, threw \in BOOLEAN : FinalizeConcat(sinkOk, threw))
        /\ allSegments' # <<>>
        /\ \A k \in 1..Len(allSegments') : files[allSegments'[k]] # "data") =>
       outputPath' # "uri"]_vars

\* C39: the snapshot frozen by an accepted trigger, taken from a store that
\* is within its maxSegments, holds at most preWindow plus two segments of
\* footage, each segment lasting what the recorder records per segment.
C39_SnapshotWithinPreWindow ==
  [][(state = "BUFFERING" /\ triggerCapture
        /\ Len(segments) <= MaxSegmentsOf(bufferDurationMs)) =>
       NominalMs(preSegments') <=
         preBufferSeconds * 1000 + 2 * RecSegmentDurationMs(build)]_vars

\* C40: setClipDuration() during CapturingPost or Finalizing leaves the post
\* window that ends the loop, the state and both lists as they were.
C40_ClipDurationDuringCapture ==
  [][\A T \in ClipDurations :
       (state \in {"CAPTURING_POST", "FINALIZING"} /\ setClipDuration(T)) =>
         /\ postBufferSeconds' = postBufferSeconds
         /\ UNCHANGED <<state, preSegments, postSegments>>]_vars

====
